---- MODULE Spec2Model ----
(***************************************************************************)
(* The two example scripts of python-examples/bisq/rpccalls:               *)
(*   get_bsq_swap_offers.py  (OffersStub.GetBsqSwapOffers)                 *)
(*   send_bsq.py             (WalletsStub.SendBsq)                         *)
(* Each run of main() is modelled statement by statement; the gRPC         *)
(* transport and the daemon behind localhost:9998 are the environment.     *)
(***************************************************************************)
EXTENDS Naturals, Sequences, FiniteSets

VARIABLES
    script,             \* which of the two scripts is run
    reachable,          \* whether localhost:9998 accepts connections
    pc,                 \* position of main()
    grpc_channel,       \* local of main, line 9
    grpc_service_stub,  \* local of main, line 10
    api_password,       \* local of main, line 11
    issued,             \* the calls the stub has issued (with_call entered)
    received,           \* the requests the daemon's handler has received
    result,             \* the outcome the transport holds for the blocked call
    response,           \* local of main, line 13
    stdout,             \* the lines print() has written
    raised              \* the exception that left main(), if any

vars == <<script, reachable, pc, grpc_channel, grpc_service_stub, api_password,
          issued, received, result, response, stdout, raised>>

(***************************************************************************)
(* Bounds of the environment's inputs.                                     *)
(***************************************************************************)
MaxOffers == 2

Scripts == {"get_bsq_swap_offers", "send_bsq"}

Range(s) == {s[i] : i \in 1..Len(s)}

SeqsUpTo(S, n) == UNION {[1..k -> S] : k \in 0..n}

(***************************************************************************)
(* The constants the scripts hard-code.                                    *)
(***************************************************************************)
Target == "localhost:9998"

Password == "xyz"

StubService(s) == IF s = "get_bsq_swap_offers" THEN "Offers" ELSE "Wallets"

Method(s) == IF s = "get_bsq_swap_offers" THEN "GetBsqSwapOffers" ELSE "SendBsq"

\* Variant: the direction is normalised to lower case before it is sent.
GetBsqSwapOffersRequestLower == [direction |-> "sell"]

GetBsqSwapOffersRequest == [direction |-> "SELL"]

\* Variant: the amount is passed through a float and re-formatted.
SendBsqRequestReformatted ==
    [address |-> "Bbcrt1q9elrmtxtzpwt25zq2pmeeu6qk8029w404ad0xn",
     amount |-> "10.0",
     tx_fee_rate |-> "10"]

SendBsqRequest ==
    [address |-> "Bbcrt1q9elrmtxtzpwt25zq2pmeeu6qk8029w404ad0xn",
     amount |-> "10.00",
     tx_fee_rate |-> "10"]

Request(s) == IF s = "get_bsq_swap_offers" THEN GetBsqSwapOffersRequest ELSE SendBsqRequest

\* Variant: the call is made without the password header.
MetadataNone(pw) == <<>>

Metadata(pw) == << <<"password", pw>> >>

\* with_call is given no timeout argument: the call carries no deadline.
CallTimeout == "None"

(***************************************************************************)
(* proto3 encoding of a request of string fields: a field holding the      *)
(* default (empty) value is not written; parsing restores the default.     *)
(***************************************************************************)
RequestFields(m) ==
    IF m = "GetBsqSwapOffers" THEN <<"direction">>
    ELSE <<"address", "amount", "tx_fee_rate">>

Serialize(m, req) ==
    LET F == RequestFields(m)
        pairs == [i \in 1..Len(F) |-> <<F[i], req[F[i]]>>]
    IN  SelectSeq(pairs, LAMBDA p : p[2] # "")

Parse(m, wire) ==
    [f \in Range(RequestFields(m)) |->
        IF \E i \in 1..Len(wire) : wire[i][1] = f
        THEN (CHOOSE v \in {wire[i][2] : i \in {j \in 1..Len(wire) : wire[j][1] = f}} : TRUE)
        ELSE ""]

(***************************************************************************)
(* What the daemon may answer.                                             *)
(***************************************************************************)
OfferInfos == [id : {"", "o1"}, price : {"", "1.00"}]

TxInfos == [tx_id : {"", "t1"}, is_pending : BOOLEAN]

DefaultTxInfo == [tx_id |-> "", is_pending |-> FALSE]

GetBsqSwapOffersReplies == [bsq_swap_offers : SeqsUpTo(OfferInfos, MaxOffers)]

\* A message field has presence: unset, the getter yields the default instance.
SendBsqReplies ==
    {[has_tx_info |-> h, tx_info |-> t] : h \in BOOLEAN, t \in TxInfos} \
    {[has_tx_info |-> FALSE, tx_info |-> t] : t \in TxInfos \ {DefaultTxInfo}}

Replies(m) == IF m = "GetBsqSwapOffers" THEN GetBsqSwapOffersReplies ELSE SendBsqReplies

\* The second element of with_call's result: the grpc.Call of the finished RPC.
Calls == [code : {"OK"}, trailing_metadata : {<<>>, << <<"k", "v">> >>}]

ErrorCodes == {"UNAUTHENTICATED", "INVALID_ARGUMENT", "UNAVAILABLE"}

ErrorDetails == {"", "incorrect 'password' rpc header value"}

RpcError(code, details) == [kind |-> "err", code |-> code, details |-> details]

\* A call on a channel that cannot connect fails fast (wait_for_ready unset).
TransportFailure == RpcError("UNAVAILABLE", "failed to connect to all addresses")

NoResult == [kind |-> "none"]

(***************************************************************************)
(* str() of the values the scripts print: protobuf text format, which      *)
(* writes only the fields that differ from their default, and the repr of  *)
(* a repeated field, a bracketed list of its elements' texts.  A text is a *)
(* sequence of string pieces.                                              *)
(***************************************************************************)
StrOfferInfo(o) ==
    (IF o.id # "" THEN <<"id: \"", o.id, "\"\n">> ELSE <<>>) \o
    (IF o.price # "" THEN <<"price: \"", o.price, "\"\n">> ELSE <<>>)

StrTxInfo(t) ==
    (IF t.tx_id # "" THEN <<"tx_id: \"", t.tx_id, "\"\n">> ELSE <<>>) \o
    (IF t.is_pending THEN <<"is_pending: true\n">> ELSE <<>>)

RECURSIVE JoinTexts(_)
JoinTexts(ts) ==
    IF ts = <<>> THEN <<>>
    ELSE IF Len(ts) = 1 THEN ts[1]
    ELSE ts[1] \o <<", ">> \o JoinTexts(Tail(ts))

StrOffers(offers) ==
    <<"[">> \o JoinTexts([i \in 1..Len(offers) |-> StrOfferInfo(offers[i])]) \o <<"]">>

StrRpcError(e) ==
    <<"<_InactiveRpcError of RPC that terminated with:\n\tstatus = StatusCode.", e.code,
      "\n\tdetails = \"", e.details, "\"\n>">>

\* Variant: only the first offer of the list is printed.
ResponseTextFirstOnly(s, resp) ==
    <<"Response: ">> \o
    (IF s = "get_bsq_swap_offers"
     THEN StrOffers(IF resp[1].bsq_swap_offers = <<>> THEN <<>>
                    ELSE <<Head(resp[1].bsq_swap_offers)>>)
     ELSE StrTxInfo(resp[1].tx_info))

\* print('Response: ' + str(response[0].bsq_swap_offers))
\* print('Response: ' + str(response[0].tx_info))
ResponseText(s, resp) ==
    <<"Response: ">> \o
    (IF s = "get_bsq_swap_offers" THEN StrOffers(resp[1].bsq_swap_offers)
     ELSE StrTxInfo(resp[1].tx_info))

\* Variant: the exception is not passed to print.
ExceptionTextBare(e) == <<"gRPC API Exception: %s">>

\* print('gRPC API Exception: %s', rpc_error): two arguments, joined by a space.
ExceptionText(e) == <<"gRPC API Exception: %s", " ">> \o StrRpcError(e)

\* Variant: the except clause names ConnectionError instead of grpc.RpcError.
CatchesConnectionError(excType) == excType = "ConnectionError"

\* except grpc.RpcError as rpc_error
Catches(excType) == excType = "RpcError"

\* Variant: the except clause loops back to the call.
AfterExceptRetry == "try"

\* The statement main() reaches once the except clause has run.
AfterExcept == "done"

(***************************************************************************)
(* Init: the interpreter is about to enter main().                         *)
(***************************************************************************)
NoChannel == [target |-> "", state |-> "none", connected |-> FALSE]

Init ==
    /\ script \in Scripts
    /\ reachable \in BOOLEAN
    /\ pc = "start"
    /\ grpc_channel = NoChannel
    /\ grpc_service_stub = ""
    /\ api_password = ""
    /\ issued = <<>>
    /\ received = <<>>
    /\ result = NoResult
    /\ response = <<>>
    /\ stdout = <<>>
    /\ raised = "none"

\* grpc.insecure_channel(target): the channel object is created at once; the
\* connection is made only when a call needs it.
InsecureChannel(target) == [target |-> target, state |-> "open", connected |-> FALSE]

CreateChannel ==
    /\ pc = "start"
    /\ grpc_channel' = InsecureChannel(Target)
    /\ pc' = "stub"
    /\ UNCHANGED <<script, reachable, grpc_service_stub, api_password, issued,
                   received, result, response, stdout, raised>>

CreateStub ==
    /\ pc = "stub"
    /\ grpc_service_stub' = StubService(script)
    /\ pc' = "password"
    /\ UNCHANGED <<script, reachable, grpc_channel, api_password, issued,
                   received, result, response, stdout, raised>>

SetPassword ==
    /\ pc = "password"
    /\ api_password' = Password
    /\ pc' = "try"
    /\ UNCHANGED <<script, reachable, grpc_channel, grpc_service_stub, issued,
                   received, result, response, stdout, raised>>

\* The stub's method is invoked: the call is handed to the channel and main blocks.
WithCall ==
    /\ pc = "try"
    /\ issued' = Append(issued,
                    [service |-> grpc_service_stub,
                     method |-> Method(script),
                     request |-> Request(script),
                     wire |-> Serialize(Method(script), Request(script)),
                     metadata |-> Metadata(api_password),
                     timeout |-> CallTimeout])
    /\ pc' = "blocked"
    /\ UNCHANGED <<script, reachable, grpc_channel, grpc_service_stub, api_password,
                   received, result, response, stdout, raised>>

\* Variant: the call reaches a daemon whatever the endpoint's state.
DeliversAlways(r) == TRUE

\* Whether the transport hands the call to the daemon.
Delivers(r) == r

\* The channel connects and the daemon's handler receives the request.
Deliver ==
    /\ pc = "blocked"
    /\ result = NoResult
    /\ received = <<>>
    /\ Delivers(reachable)
    /\ grpc_channel' = [grpc_channel EXCEPT !.connected = TRUE]
    /\ received' = Append(received,
                     [method |-> issued[Len(issued)].method,
                      request |-> Parse(issued[Len(issued)].method, issued[Len(issued)].wire),
                      metadata |-> issued[Len(issued)].metadata])
    /\ UNCHANGED <<script, reachable, pc, grpc_service_stub, api_password, issued,
                   result, response, stdout, raised>>

\* The channel cannot connect: the call fails without reaching the daemon.
Unavailable ==
    /\ pc = "blocked"
    /\ result = NoResult
    /\ ~Delivers(reachable)
    /\ result' = TransportFailure
    /\ UNCHANGED <<script, reachable, pc, grpc_channel, grpc_service_stub, api_password,
                   issued, received, response, stdout, raised>>

ServerReply ==
    /\ pc = "blocked"
    /\ result = NoResult
    /\ received # <<>>
    /\ \E reply \in Replies(received[Len(received)].method), call \in Calls :
          result' = [kind |-> "ok", reply |-> reply, call |-> call]
    /\ UNCHANGED <<script, reachable, pc, grpc_channel, grpc_service_stub, api_password,
                   issued, received, response, stdout, raised>>

ServerError ==
    /\ pc = "blocked"
    /\ result = NoResult
    /\ received # <<>>
    /\ \E code \in ErrorCodes, details \in ErrorDetails :
          result' = RpcError(code, details)
    /\ UNCHANGED <<script, reachable, pc, grpc_channel, grpc_service_stub, api_password,
                   issued, received, response, stdout, raised>>

\* with_call returns the pair (response message, call).
Return ==
    /\ pc = "blocked"
    /\ result.kind = "ok"
    /\ response' = <<result.reply, result.call>>
    /\ pc' = "print"
    /\ UNCHANGED <<script, reachable, grpc_channel, grpc_service_stub, api_password,
                   issued, received, result, stdout, raised>>

PrintResponse ==
    /\ pc = "print"
    /\ stdout' = Append(stdout, ResponseText(script, response))
    /\ pc' = "done"
    /\ UNCHANGED <<script, reachable, grpc_channel, grpc_service_stub, api_password,
                   issued, received, result, response, raised>>

\* with_call raises grpc.RpcError; the except clause prints it, or the
\* exception leaves main().
Except ==
    /\ pc = "blocked"
    /\ result.kind = "err"
    /\ IF Catches("RpcError")
       THEN /\ stdout' = Append(stdout, ExceptionText(result))
            /\ pc' = AfterExcept
            /\ raised' = raised
       ELSE /\ stdout' = stdout
            /\ pc' = "raised"
            /\ raised' = "RpcError"
    /\ UNCHANGED <<script, reachable, grpc_channel, grpc_service_stub, api_password,
                   issued, received, result, response>>

ClientStep ==
    \/ CreateChannel
    \/ CreateStub
    \/ SetPassword
    \/ WithCall
    \/ Return
    \/ PrintResponse
    \/ Except

Remote ==
    \/ Deliver
    \/ Unavailable
    \/ ServerReply
    \/ ServerError

Next == ClientStep \/ Remote

Spec == Init /\ [][Next]_vars

\* The interpreter runs main() to its end, and the remote eventually answers
\* a call it holds.
FairSpec == Spec /\ WF_vars(ClientStep) /\ WF_vars(Remote)

(***************************************************************************)
(* The claims.                                                             *)
(***************************************************************************)
Succeeded == result.kind = "ok"

Failed == result.kind = "err"

Invoked == pc \in {"blocked", "print", "done"}

NonDefaultOffers(offers) == SelectSeq(offers, LAMBDA o : o.id # "" \/ o.price # "")

\* The text after 'Response: ' that the reply p would be printed as.
Rendering(p) ==
    IF script = "get_bsq_swap_offers" THEN StrOffers(p.bsq_swap_offers)
    ELSE StrTxInfo(p.tx_info)

C2_FailureReportedOnce ==
    Failed =>
        /\ response = <<>>
        /\ Len(stdout) <= 1
        /\ \A i \in 1..Len(stdout) : stdout[i][1] # "Response: "
        /\ pc = "done" =>
              /\ Len(stdout) = 1
              /\ stdout[1][1] = "gRPC API Exception: %s"
              /\ result.code \in Range(stdout[1])
              /\ result.details \in Range(stdout[1])

C2_Witness ==
    /\ pc = "done"
    /\ Failed
    /\ result.code = "UNAUTHENTICATED"
    /\ result.details # ""

C4_PasswordOnEveryCall ==
    /\ \A i \in 1..Len(issued) :
          /\ <<"password", api_password>> \in Range(issued[i].metadata)
          /\ \A f \in DOMAIN issued[i].request : issued[i].request[f] # api_password
          /\ \A k \in 1..Len(issued[i].wire) : issued[i].wire[k][2] # api_password
    /\ \A i \in 1..Len(received) :
          /\ <<"password", Password>> \in Range(received[i].metadata)
          /\ \A f \in DOMAIN received[i].request : received[i].request[f] # Password

C4_Witness ==
    /\ Len(issued) = 1
    /\ Len(received) = 1
    /\ received[1].metadata = << <<"password", "xyz">> >>

\* C5: the remote method is invoked at most once, exactly once as soon as
\* main has reached the call, on success and on failure alike, and the
\* daemon receives at most one request.
C5_InvokedAtMostOnce ==
    /\ Len(issued) <= 1
    /\ Len(received) <= 1
    /\ Invoked => Len(issued) = 1
    /\ ~Invoked => issued = <<>>

C5_Witness ==
    /\ pc = "done"
    /\ Failed
    /\ Len(issued) = 1
    /\ Len(received) = 1

\* C6, as stated: whenever main has returned, the channel opened at the
\* start of main has been closed.
C6_ChannelClosedOnReturn == pc = "done" => grpc_channel.state = "closed"

C8_DirectionUnchanged ==
    script = "get_bsq_swap_offers" =>
        /\ \A i \in 1..Len(issued) : issued[i].service = "Offers"
        /\ \A i \in 1..Len(received) :
              /\ received[i].method = "GetBsqSwapOffers"
              /\ DOMAIN received[i].request = {"direction"}
              /\ received[i].request.direction = "SELL"

C8_Witness ==
    /\ script = "get_bsq_swap_offers"
    /\ Len(received) = 1
    /\ pc = "blocked"

\* C9: nothing is printed before the remote has answered, never more than
\* one line is printed, the call carries no timeout, and, the remote
\* answering every call it holds, every run ends with main returned and
\* exactly one line printed.
C9_BlockingRoundTrip ==
    /\ [](result = NoResult => stdout = <<>>)
    /\ [](Len(stdout) <= 1)
    /\ [](\A i \in 1..Len(issued) : issued[i].timeout = "None")
    /\ <>(pc = "done" /\ Len(stdout) = 1)

C9_Witness ==
    /\ pc = "done"
    /\ Len(stdout) = 1
    /\ Succeeded
    /\ result.call.trailing_metadata # <<>>

\* C10: no exception ever leaves main: a failed call ends with main
\* returned, as a successful one does, having printed one line that starts
\* with 'gRPC API Exception'.
C10_RpcErrorNeverPropagates ==
    /\ raised = "none"
    /\ pc # "raised"
    /\ (Failed /\ pc # "blocked") =>
          /\ pc = "done"
          /\ Len(stdout) = 1
          /\ stdout[1][1] = "gRPC API Exception: %s"

C10_Witness ==
    /\ pc = "done"
    /\ Failed
    /\ result.code = "INVALID_ARGUMENT"
    /\ raised = "none"

====
